---- MODULE Spec2Model ----
(***************************************************************************)
(* Model of the message_rag repository: the sliding-window RateLimiter     *)
(* (src/utils/rate_limiter.py), the file-based ResponseCache               *)
(* (src/utils/cache.py), the QueryEngine / VectorStore.search pipeline     *)
(* (src/rag/query_engine.py, src/rag/vector_store.py), the retry wrapper   *)
(* (src/handlers/error_handler.py) and the MessageProcessor's ingestion    *)
(* (src/rag/message_processor.py).                                         *)
(*                                                                         *)
(* Time is the value of time.time(), in seconds, as a natural number.      *)
(* Scores and distances are fixed-point numbers in hundredths.             *)
(***************************************************************************)
EXTENDS Integers, Sequences, FiniteSets, TLC

VARIABLES
    clock,                \* the value time.time() returns
    \* ---- RateLimiter ----
    callers,              \* the threads that call the shared RateLimiter
    requests_per_minute,  \* RateLimiter.requests_per_minute
    requests,             \* RateLimiter.requests, the deque, oldest first
    pc,                   \* per caller: position inside acquire()
    now,                  \* per caller: the local `now` of acquire()
    wake,                 \* per caller: the time time.sleep() may return at
    admitted,             \* history: every timestamp acquire() appended
    usage,                \* the last value get_current_usage() returned
    usage_call,           \* history: the last usage / remaining-capacity call
    blocking,             \* history, per caller: the capacity check and the
                          \* sleep of its current acquire() call
    \* ---- ResponseCache ----
    ttl_seconds,          \* ResponseCache.ttl_seconds
    files,                \* the cache directory: file key -> file text
    cache_log,            \* history: the set() and clear() calls, in order
    cache_op,             \* the last cache call and what it returned
    writing,              \* the set() call that has its file open, if any
    \* ---- QueryEngine / VectorStore ----
    top_k,                \* QueryEngine.top_k
    min_similarity,       \* QueryEngine.min_similarity ({} is None)
    collection,           \* the index: message id -> stored record
    distances,            \* the embedding geometry: message id -> distance
    llm_calls,            \* completions the LLM client has served
    query_result,         \* the last query() call and what it returned
    formatted,            \* the last format_response() call and what it returned
    ingest_result,        \* the last ingestion call and what it did
    \* ---- retry_on_error ----
    max_retries,          \* the decorator's max_retries
    delay,                \* the decorator's delay
    backoff,              \* the decorator's backoff
    exceptions,           \* the decorator's exceptions, as a set of class names
    retry_pc,             \* the wrapper call: idle, running, returned or raised
    attempt,              \* the wrapper's loop variable
    current_delay,        \* the wrapper's current_delay
    last_exception,       \* the wrapper's last_exception
    invocations,          \* history: the outcome of every call of func
    sleeps,               \* history: the duration of every time.sleep()
    retry_out             \* what the wrapper call returned or raised

rlVars == <<callers, requests_per_minute, requests, pc, now, wake, admitted, usage,
            usage_call, blocking>>
cacheVars == <<ttl_seconds, files, cache_log, cache_op, writing>>
queryVars == <<top_k, min_similarity, collection, distances, llm_calls, query_result,
               formatted, ingest_result>>
retryVars == <<max_retries, delay, backoff, exceptions, retry_pc, attempt,
               current_delay, last_exception, invocations, sleeps, retry_out>>
vars == <<clock, rlVars, cacheVars, queryVars, retryVars>>

(***************************************************************************)
(* Bounds of the model.                                                    *)
(***************************************************************************)
MaxTime == 80         \* the rate limiter's clock stops here
MaxCacheTime == 40    \* the cache's clock stops here
MaxCapacity == 2      \* largest configured requests_per_minute
MaxAdmitted == 4      \* acquire() calls that are admitted in one run
MaxTopK == 2          \* largest configured top_k
MaxLlmCalls == 2      \* completions served in one run
MaxCacheWrites == 2   \* set() and clear() calls in one run
MaxRetries == 2       \* largest configured max_retries
MaxBatch == 2         \* longest list given to process_messages_batch
MaxRetryTime == 3     \* no wrapped call starts after this time

\* The amounts by which the clock is seen to advance.
Ticks == {20, 40}

Min(a, b) == IF a <= b THEN a ELSE b

(***************************************************************************)
(* RateLimiter                                                             *)
(***************************************************************************)
window_size == 60

\* The two conditions of `while self.requests and now - self.requests[0] >
\* self.window_size`, each one read of the shared deque.
Expired(t) == t - Head(requests) > window_size

\* The purge loop run to its end by one caller alone.
RECURSIVE Purged(_, _)
Purged(q, t) ==
    IF q # <<>> /\ t - Head(q) > window_size THEN Purged(Tail(q), t) ELSE q

\* A caller whose acquire() call has not reached the capacity check.
NotBlocked == [sleeps |-> 0, size |-> 0 - 1, now |-> 0, oldest |-> 0, duration |-> 0]

\* No usage call has been made.
NoUsageCall == [op |-> "none", time |-> 0, before |-> <<>>, admitted_len |-> 0,
                remaining |-> <<>>]

\* acquire(), first line: now = time.time()
AcquireCall(t) ==
    /\ pc[t] = "idle"
    /\ Len(admitted) < MaxAdmitted
    /\ now' = [now EXCEPT ![t] = clock]
    /\ pc' = [pc EXCEPT ![t] = "purge_test"]
    /\ blocking' = [blocking EXCEPT ![t] = NotBlocked]
    /\ UNCHANGED <<clock, callers, requests_per_minute, requests, wake, admitted, usage, usage_call,
                   cacheVars, queryVars, retryVars>>

\* The loop condition's first operand: `self.requests` (is the deque non-empty).
\* The same code runs before the capacity check and after the sleep.
PurgeTest(t) ==
    /\ pc[t] \in {"purge_test", "repurge_test"}
    /\ pc' = [pc EXCEPT ![t] =
                IF requests # <<>>
                THEN (IF pc[t] = "purge_test" THEN "purge_head" ELSE "repurge_head")
                ELSE (IF pc[t] = "purge_test" THEN "check" ELSE "append")]
    /\ UNCHANGED <<clock, callers, requests_per_minute, requests, now, wake, admitted, usage, usage_call, blocking,
                   cacheVars, queryVars, retryVars>>

\* The loop condition's second operand: `now - self.requests[0] > window_size`.
\* self.requests[0] raises IndexError on an empty deque.
PurgeHead(t) ==
    /\ pc[t] \in {"purge_head", "repurge_head"}
    /\ pc' = [pc EXCEPT ![t] =
                IF requests = <<>> THEN "raised"
                ELSE IF Expired(now[t])
                THEN (IF pc[t] = "purge_head" THEN "purge_pop" ELSE "repurge_pop")
                ELSE (IF pc[t] = "purge_head" THEN "check" ELSE "append")]
    /\ UNCHANGED <<clock, callers, requests_per_minute, requests, now, wake, admitted, usage, usage_call, blocking,
                   cacheVars, queryVars, retryVars>>

\* The loop body: self.requests.popleft(), IndexError on an empty deque.
PurgePop(t) ==
    /\ pc[t] \in {"purge_pop", "repurge_pop"}
    /\ IF requests = <<>>
       THEN /\ pc' = [pc EXCEPT ![t] = "raised"]
            /\ UNCHANGED requests
       ELSE /\ requests' = Tail(requests)
            /\ pc' = [pc EXCEPT ![t] =
                        IF pc[t] = "purge_pop" THEN "purge_test" ELSE "repurge_test"]
    /\ UNCHANGED <<clock, callers, requests_per_minute, now, wake, admitted, usage, usage_call, blocking,
                   cacheVars, queryVars, retryVars>>

\* if len(self.requests) >= self.requests_per_minute:
CapacityCheck(t) ==
    /\ pc[t] = "check"
    /\ pc' = [pc EXCEPT ![t] =
                IF Len(requests) >= requests_per_minute THEN "compute_sleep" ELSE "append"]
    /\ blocking' = [blocking EXCEPT ![t].size = Len(requests)]
    /\ UNCHANGED <<clock, callers, requests_per_minute, requests, now, wake, admitted, usage, usage_call,
                   cacheVars, queryVars, retryVars>>

\* A wait of the whole window, whatever the age of the oldest entry.
SleepWholeWindow(t) == window_size

\* sleep_time = self.window_size - (now - self.requests[0]); IndexError on an
\* empty deque; time.sleep(sleep_time) only if sleep_time > 0.
SleepTime(t) == window_size - (now[t] - Head(requests))

ComputeSleep(t) ==
    /\ pc[t] = "compute_sleep"
    /\ IF requests = <<>>
       THEN /\ pc' = [pc EXCEPT ![t] = "raised"]
            /\ UNCHANGED wake
       ELSE IF SleepTime(t) > 0
       THEN /\ pc' = [pc EXCEPT ![t] = "sleeping"]
            /\ wake' = [wake EXCEPT ![t] = clock + SleepTime(t)]
       ELSE /\ pc' = [pc EXCEPT ![t] = "renow"]
            /\ UNCHANGED wake
    /\ blocking' = IF requests # <<>> /\ SleepTime(t) > 0
                    THEN [blocking EXCEPT ![t].sleeps = blocking[t].sleeps + 1,
                                          ![t].now = now[t],
                                          ![t].oldest = Head(requests),
                                          ![t].duration = SleepTime(t)]
                    ELSE blocking
    /\ UNCHANGED <<clock, callers, requests_per_minute, requests, now, admitted, usage, usage_call,
                   cacheVars, queryVars, retryVars>>

\* time.sleep() returns once at least sleep_time has passed.
SleepReturns(t) ==
    /\ pc[t] = "sleeping"
    /\ clock >= wake[t]
    /\ pc' = [pc EXCEPT ![t] = "renow"]
    /\ UNCHANGED <<clock, callers, requests_per_minute, requests, now, wake, admitted, usage, usage_call, blocking,
                   cacheVars, queryVars, retryVars>>

\* now = time.time() after the sleep
ReNow(t) ==
    /\ pc[t] = "renow"
    /\ now' = [now EXCEPT ![t] = clock]
    /\ pc' = [pc EXCEPT ![t] = "repurge_test"]
    /\ UNCHANGED <<clock, callers, requests_per_minute, requests, wake, admitted, usage, usage_call, blocking,
                   cacheVars, queryVars, retryVars>>

\* self.requests.append(now); acquire() returns.
AppendNow(t) ==
    /\ pc[t] = "append"
    /\ requests' = Append(requests, now[t])
    /\ admitted' = Append(admitted, now[t])
    /\ pc' = [pc EXCEPT ![t] = "idle"]
    /\ UNCHANGED <<clock, callers, requests_per_minute, now, wake, usage, usage_call, blocking,
                   cacheVars, queryVars, retryVars>>

\* get_current_usage(), called between acquire() calls.
GetCurrentUsage ==
    /\ \A t \in callers : pc[t] \in {"idle", "raised"}
    /\ requests' = Purged(requests, clock)
    /\ usage' = [current_requests |-> Len(Purged(requests, clock)),
                 max_requests |-> requests_per_minute]
    /\ usage_call' = [op |-> "usage", time |-> clock, before |-> requests,
                      admitted_len |-> Len(admitted), remaining |-> <<>>]
    /\ UNCHANGED <<clock, callers, requests_per_minute, pc, now, wake, admitted, blocking,
                   cacheVars, queryVars, retryVars>>

\* get_remaining_capacity(), called between acquire() calls: the usage is
\* taken by get_current_usage(), then (max - current, max) is returned.
GetRemainingCapacity ==
    /\ \A t \in callers : pc[t] \in {"idle", "raised"}
    /\ requests' = Purged(requests, clock)
    /\ usage' = [current_requests |-> Len(Purged(requests, clock)),
                 max_requests |-> requests_per_minute]
    /\ usage_call' = [op |-> "remaining", time |-> clock, before |-> requests,
                      admitted_len |-> Len(admitted),
                      remaining |-> <<usage'.max_requests - usage'.current_requests,
                                      usage'.max_requests>>]
    /\ UNCHANGED <<clock, callers, requests_per_minute, pc, now, wake, admitted, blocking,
                   cacheVars, queryVars, retryVars>>

\* Time passes while every caller is between calls or asleep.
Tick ==
    /\ \A t \in callers : pc[t] \in {"idle", "sleeping", "raised"}
    /\ \E d \in Ticks :
          /\ clock + d <= MaxTime
          /\ clock' = clock + d
    /\ UNCHANGED <<rlVars, cacheVars, queryVars, retryVars>>

(***************************************************************************)
(* ResponseCache                                                           *)
(***************************************************************************)
\* The prompts, model names and responses the callers use.
Prompts == {"hi", "x:hi"}
Models == {"gpt", "gpt:x"}
Responses == {"r1", "r2"}
TtlChoices == {20}

\* JSON values: numbers and strings.
Num(n) == [type |-> "number", n |-> n, s |-> ""]
Str(s) == [type |-> "string", n |-> 0, s |-> s]
None == [type |-> "None", n |-> 0, s |-> ""]

\* The text of a file, as the sequence of its JSON tokens.
LBrace == [tok |-> "{", key |-> "", val |-> None]
RBrace == [tok |-> "}", key |-> "", val |-> None]
LBracket == [tok |-> "[", key |-> "", val |-> None]
RBracket == [tok |-> "]", key |-> "", val |-> None]
Member(k, v) == [tok |-> "member", key |-> k, val |-> v]

\* A key that leaves the model name out.
CacheKeyWithoutModel(prompt, model) == prompt

\* _get_cache_key: sha256 of f"{model}:{prompt}"; the hash is taken to be
\* injective, so the key is the hashed string itself.
CacheKey(prompt, model) == model \o ":" \o prompt

\* The dict set() builds, in insertion order.
EntryData(t, prompt, model, response) ==
    << [key |-> "timestamp", val |-> Num(t)],
       [key |-> "prompt", val |-> Str(prompt)],
       [key |-> "model", val |-> Str(model)],
       [key |-> "response", val |-> Str(response)] >>

\* json.dump of a dict: "{" member ... member "}".
JsonDump(data) ==
    <<LBrace>> \o [i \in 1..Len(data) |-> Member(data[i].key, data[i].val)] \o <<RBrace>>

\* json.load: a dict for "{" members "}", a list for "[" "]", JSONDecodeError
\* for any other text (an empty or truncated file among them).
IsObjectText(text) ==
    /\ Len(text) >= 2
    /\ text[1] = LBrace
    /\ text[Len(text)] = RBrace
    /\ \A i \in 2..(Len(text) - 1) : text[i].tok = "member"

JsonLoad(text) ==
    IF IsObjectText(text)
    THEN [kind |-> "dict",
          items |-> [i \in 1..(Len(text) - 2) |->
                        [key |-> text[i + 1].key, val |-> text[i + 1].val]]]
    ELSE IF text = <<LBracket, RBracket>>
    THEN [kind |-> "list", items |-> <<>>]
    ELSE [kind |-> "JSONDecodeError", items |-> <<>>]

\* data[k] on a parsed dict: the last member named k; KeyError when there is none.
HasKey(data, k) == \E i \in DOMAIN data.items : data.items[i].key = k
Lookup(data, k) ==
    LET last == CHOOSE i \in DOMAIN data.items :
                    /\ data.items[i].key = k
                    /\ \A j \in DOMAIN data.items : data.items[j].key = k => j <= i
    IN data.items[last].val

\* if time.time() - data["timestamp"] > self.ttl_seconds
EntryExpired(t, timestamp) == t - timestamp > ttl_seconds

\* What get() does with the text of an existing file at time t:
\* the value it returns, the exception it lets out, and whether it unlinks.
GetOutcome(text, t) ==
    LET data == JsonLoad(text) IN
    IF data.kind = "JSONDecodeError"
    THEN [result |-> None, raised |-> "", unlink |-> TRUE]
    ELSE IF data.kind # "dict"
    THEN [result |-> None, raised |-> "TypeError", unlink |-> FALSE]
    ELSE IF ~HasKey(data, "timestamp")
    THEN [result |-> None, raised |-> "", unlink |-> TRUE]
    ELSE IF Lookup(data, "timestamp").type # "number"
    THEN [result |-> None, raised |-> "TypeError", unlink |-> FALSE]
    ELSE IF EntryExpired(t, Lookup(data, "timestamp").n)
    THEN [result |-> None, raised |-> "", unlink |-> TRUE]
    ELSE IF ~HasKey(data, "response")
    THEN [result |-> None, raised |-> "", unlink |-> TRUE]
    ELSE [result |-> Lookup(data, "response"), raised |-> "", unlink |-> FALSE]

\* The directory without the file of key k (Path.unlink).
Unlink(dir, k) == [j \in DOMAIN dir \ {k} |-> dir[j]]

\* The directory with text written to the file of key k (open "w" + json.dump).
WriteFile(dir, k, text) == [j \in DOMAIN dir \cup {k} |-> IF j = k THEN text ELSE dir[j]]

\* Time passes between two cache calls.
CacheTick ==
    /\ \E d \in Ticks :
          /\ clock + d <= MaxCacheTime
          /\ clock' = clock + d
    /\ UNCHANGED <<rlVars, cacheVars, queryVars, retryVars>>

\* get(prompt, model)
CacheGet(prompt, model) ==
    LET k == CacheKey(prompt, model) IN
    /\ IF k \notin DOMAIN files
       THEN /\ cache_op' = [op |-> "get", prompt |-> prompt, model |-> model,
                            time |-> clock, result |-> None, raised |-> "", count |-> 0,
                    before |-> <<>>]
            /\ UNCHANGED <<files, writing>>
       ELSE LET out == GetOutcome(files[k], clock) IN
            /\ cache_op' = [op |-> "get", prompt |-> prompt, model |-> model,
                            time |-> clock, result |-> out.result,
                            raised |-> out.raised, count |-> 0,
                            before |-> <<>>]
            /\ files' = IF out.unlink THEN Unlink(files, k) ELSE files
            /\ writing' = IF out.unlink /\ writing.active /\ writing.key = k
                           THEN [writing EXCEPT !.detached = TRUE]
                           ELSE writing
    /\ UNCHANGED <<clock, ttl_seconds, cache_log, rlVars, queryVars, retryVars>>

\* set(prompt, model, response)
CacheSet(prompt, model, response) ==
    /\ Len(cache_log) < MaxCacheWrites
    /\ files' = WriteFile(files, CacheKey(prompt, model),
                          JsonDump(EntryData(clock, prompt, model, response)))
    /\ cache_log' = Append(cache_log, [op |-> "set", prompt |-> prompt, model |-> model,
                                       response |-> response, time |-> clock])
    /\ cache_op' = [op |-> "set", prompt |-> prompt, model |-> model,
                    time |-> clock, result |-> None, raised |-> "", count |-> 0,
                    before |-> <<>>]
    /\ UNCHANGED <<clock, ttl_seconds, writing, rlVars, queryVars, retryVars>>

\* clear(): unlink every *.json file, return how many there were.
CacheClear ==
    /\ Len(cache_log) < MaxCacheWrites
    /\ files' = <<>>
    /\ cache_log' = Append(cache_log, [op |-> "clear", prompt |-> "", model |-> "",
                                       response |-> "", time |-> clock])
    /\ cache_op' = [op |-> "clear", prompt |-> "", model |-> "",
                    time |-> clock, result |-> None, raised |-> "",
                    count |-> Cardinality(DOMAIN files), before |-> files]
    /\ UNCHANGED <<clock, ttl_seconds, writing, rlVars, queryVars, retryVars>>

\* What clear_expired() does with the text of one file at time t: unlink it,
\* keep it, or let an exception out.
SweepOutcome(text, t) ==
    LET data == JsonLoad(text) IN
    IF data.kind = "JSONDecodeError" THEN "unlink"
    ELSE IF data.kind # "dict" THEN "TypeError"
    ELSE IF ~HasKey(data, "timestamp") THEN "unlink"
    ELSE IF Lookup(data, "timestamp").type # "number" THEN "TypeError"
    ELSE IF EntryExpired(t, Lookup(data, "timestamp").n) THEN "unlink"
    ELSE "keep"

\* The orders in which glob("*.json") can yield the files of a directory.
Orders(dir) ==
    {order \in [1..Cardinality(DOMAIN dir) -> DOMAIN dir] :
        \A i, j \in DOMAIN order : order[i] = order[j] => i = j}

\* The loop of clear_expired() over order[1..n]: the directory and the count
\* it has reached, or the exception that ended it.
RECURSIVE Sweep(_, _, _, _)
Sweep(order, n, dir, t) ==
    IF n = 0 THEN [files |-> dir, count |-> 0, raised |-> ""]
    ELSE LET done == Sweep(order, n - 1, dir, t)
             outcome == SweepOutcome(dir[order[n]], t)
         IN IF done.raised # "" THEN done
            ELSE IF outcome = "TypeError" THEN [done EXCEPT !.raised = "TypeError"]
            ELSE IF outcome = "unlink"
            THEN [done EXCEPT !.files = Unlink(done.files, order[n]),
                              !.count = done.count + 1]
            ELSE done

\* clear_expired(): current_time is read once, then every file is examined.
ClearExpired ==
    /\ \E order \in Orders(files) :
          LET swept == Sweep(order, Len(order), files, clock) IN
          /\ files' = swept.files
          /\ cache_op' = [op |-> "clear_expired", prompt |-> "", model |-> "",
                          time |-> clock, result |-> None, raised |-> swept.raised,
                          count |-> IF swept.raised = "" THEN swept.count ELSE 0,
                          before |-> files]
    /\ UNCHANGED <<clock, ttl_seconds, cache_log, writing, rlVars, queryVars, retryVars>>

\* File texts an earlier process can have left in the cache directory: a
\* complete entry, and entries that are empty, truncated, lack a field, are
\* not a dict, or carry a timestamp that is not a number.
LeftoverTexts ==
    { JsonDump(EntryData(0, "hi", "gpt", "r1")),
      <<>>,
      <<LBrace, Member("timestamp", Num(0))>>,
      <<LBrace, Member("response", Str("r1")), RBrace>>,
      <<LBrace, Member("timestamp", Num(0)), RBrace>>,
      <<LBracket, RBracket>>,
      <<LBrace, Member("timestamp", Str("soon")), Member("response", Str("r1")), RBrace>> }

NoCacheOp ==
    [op |-> "none", prompt |-> "", model |-> "", time |-> 0,
     result |-> None, raised |-> "", count |-> 0,
                    before |-> <<>>]

\* No set() call has its file open.
NotWriting ==
    [active |-> FALSE, key |-> "", prompt |-> "", model |-> "", response |-> "",
     time |-> 0, text |-> <<>>, flushed |-> 0, detached |-> FALSE]

\* set(), first part: the entry is built with the current time, and
\* open(cache_path, "w") creates the file or truncates it to nothing.
SetOpen(prompt, model, response) ==
    /\ ~writing.active
    /\ Len(cache_log) < MaxCacheWrites
    /\ files' = WriteFile(files, CacheKey(prompt, model), <<>>)
    /\ writing' = [active |-> TRUE, key |-> CacheKey(prompt, model),
                   prompt |-> prompt, model |-> model, response |-> response,
                   time |-> clock,
                   text |-> JsonDump(EntryData(clock, prompt, model, response)),
                   flushed |-> 0, detached |-> FALSE]
    /\ UNCHANGED <<clock, ttl_seconds, cache_log, cache_op, rlVars, queryVars, retryVars>>

\* set(), json.dump: the buffer is flushed part of the way through the entry.
\* A file that was unlinked while open no longer has a name, and what is
\* written to it does not appear in the directory.
SetFlush ==
    /\ writing.active
    /\ \E n \in (writing.flushed + 1)..(Len(writing.text) - 1) :
          /\ writing' = [writing EXCEPT !.flushed = n]
          /\ files' = IF writing.detached
                       THEN files
                       ELSE WriteFile(files, writing.key, SubSeq(writing.text, 1, n))
    /\ UNCHANGED <<clock, ttl_seconds, cache_log, cache_op, rlVars, queryVars, retryVars>>

\* set(), leaving the with block: the rest is flushed, the file is closed
\* and set() returns.
SetClose ==
    /\ writing.active
    /\ files' = IF writing.detached
                 THEN files
                 ELSE WriteFile(files, writing.key, writing.text)
    /\ writing' = [writing EXCEPT !.active = FALSE, !.flushed = Len(writing.text)]
    /\ cache_log' = Append(cache_log, [op |-> "set", prompt |-> writing.prompt,
                                       model |-> writing.model,
                                       response |-> writing.response,
                                       time |-> writing.time])
    /\ cache_op' = [op |-> "set", prompt |-> writing.prompt, model |-> writing.model,
                    time |-> writing.time, result |-> None, raised |-> "", count |-> 0,
                    before |-> <<>>]
    /\ UNCHANGED <<clock, ttl_seconds, rlVars, queryVars, retryVars>>

InitCacheIdle ==
    /\ ttl_seconds = 0
    /\ files = <<>>
    /\ cache_log = <<>>
    /\ cache_op = NoCacheOp
    /\ writing = NotWriting

(***************************************************************************)
(* VectorStore.search and QueryEngine.query                                *)
(***************************************************************************)
\* The messages an index can hold, the question asked, the texts the LLM
\* returns, and the configured thresholds ({} is None).
MessageIds == {"m1", "m2", "m3"}
Questions == {"budget?"}
\* The texts the LLM answers with; one of them has a sources section of its own.
Answers == {"It is 5.", "5. Sources: m1"}
Distances == {0, 40, 130}
MinSimilarityChoices == {{}, {0}, {70}}

\* Scores are hundredths: 1.0 is 100.
One == 100
PreviewLimit == 100

\* The stored document and metadata of a message.
Document(id) ==
    IF id = "m1" THEN <<"b", "u", "d", "g", "e", "t">>
    ELSE IF id = "m2" THEN [i \in 1..PreviewLimit |-> "y"]
    ELSE [i \in 1..(PreviewLimit + 1) |-> "z"]

Metadata(id) ==
    IF id = "m1" THEN [url |-> "u1", author |-> "Alice", timestamp |-> "t1"]
    ELSE IF id = "m2" THEN [url |-> "u2", timestamp |-> "t2"]
    ELSE [author |-> "Charlie"]

\* metadata.get(key, default)
MetadataGet(metadata, key, default) ==
    IF key \in DOMAIN metadata THEN metadata[key] ELSE default

\* collection.query(n_results = k): the k nearest stored records, nearest
\* first; any order among records at the same distance.
Nearest(question, k) ==
    LET ids == DOMAIN collection
        n == Min(k, Cardinality(ids))
    IN { r \in [1..n -> ids] :
            /\ \A i, j \in 1..n : i < j => r[i] # r[j]
            /\ \A i, j \in 1..n :
                  i < j => distances[question][r[i]] <= distances[question][r[j]]
            /\ \A id \in ids \ {r[i] : i \in 1..n} :
                  \A i \in 1..n : distances[question][r[i]] <= distances[question][id] }

\* similarity = 1 - distance
Similarity(distance) == One - distance

\* A filter that lets every result through.
KeptAlways(similarity, threshold) == TRUE

\* A filter that compares the other way round.
KeptAbove(similarity, threshold) == ~(\E m \in threshold : similarity > m)

\* A result is kept unless `min_similarity is not None and similarity <
\* min_similarity`.
Kept(similarity, threshold) == ~(\E m \in threshold : similarity < m)

\* search(): the records of the raw result that are kept, in the index's order.
RECURSIVE Search(_, _, _)
Search(question, raw, threshold) ==
    IF raw = <<>> THEN <<>>
    ELSE LET id == Head(raw)
             similarity == Similarity(distances[question][id])
             rest == Search(question, Tail(raw), threshold)
         IN IF Kept(similarity, threshold)
            THEN <<[id |-> id,
                    content |-> collection[id].content,
                    metadata |-> collection[id].metadata,
                    score |-> similarity]>> \o rest
            ELSE rest

\* A preview that also cuts a content of exactly PreviewLimit characters.
ContentPreviewAtLimit(content) ==
    IF Len(content) >= PreviewLimit
    THEN SubSeq(content, 1, PreviewLimit) \o <<".", ".", ".">>
    ELSE content

\* content_preview
ContentPreview(content) ==
    IF Len(content) > PreviewLimit
    THEN SubSeq(content, 1, PreviewLimit) \o <<".", ".", ".">>
    ELSE content

\* The source query() builds from one result.
Source(result) ==
    [url |-> MetadataGet(result.metadata, "url", ""),
     author |-> MetadataGet(result.metadata, "author", "Unknown"),
     timestamp |-> MetadataGet(result.metadata, "timestamp", ""),
     score |-> result.score,
     content_preview |-> ContentPreview(result.content)]

FallbackAnswer == "I couldn't find any relevant messages to answer your question."

\* The response query() returns when search() returned nothing.
FallbackResponse ==
    [answer |-> FallbackAnswer, sources |-> <<>>, context_used |-> <<>>]

\* A response whose sources are in the reverse order of the results.
AnsweredResponseReversed(answer, results) ==
    [answer |-> answer,
     sources |-> [i \in 1..Len(results) |-> Source(results[Len(results) + 1 - i])],
     context_used |-> results,
     num_sources |-> Len(results)]

\* The response query() returns after the LLM answered.
AnsweredResponse(answer, results) ==
    [answer |-> answer,
     sources |-> [i \in 1..Len(results) |-> Source(results[i])],
     context_used |-> results,
     num_sources |-> Len(results)]

\* The exceptions the LLM client's complete() raises.
LlmFailures == {"APIError", "RateLimitError"}

CaughtWithFallback(kind) ==
    [outcome |-> "returned", error |-> "", response |-> FallbackResponse]

\* query() has no try statement: an exception raised inside it leaves
\* query() as it is, and nothing is returned.
Uncaught(kind) == [outcome |-> "raised", error |-> kind, response |-> <<>>]

\* query(question): the search, the short-circuit on an empty result, the
\* completion and the response.  The search and the completion can fail; the
\* failure leaves query() as an exception.
Query(question) ==
    /\ llm_calls < MaxLlmCalls
    /\ \E raw \in Nearest(question, top_k), search_ok \in BOOLEAN,
          completion \in Answers \cup LlmFailures :
          LET results == Search(question, raw, min_similarity) IN
          IF ~search_ok
          THEN /\ query_result' = [outcome |-> Uncaught("SearchError").outcome,
                                   error |-> Uncaught("SearchError").error,
                                   question |-> question, raw |-> <<>>,
                                   searched |-> FALSE, calls |-> 0,
                                   response |-> Uncaught("SearchError").response,
                                   searches |-> 1, failure |-> "SearchError"]
               /\ UNCHANGED llm_calls
          ELSE IF results = <<>>
          THEN /\ query_result' = [outcome |-> "returned", error |-> "",
                                   question |-> question, raw |-> raw,
                                   searched |-> TRUE, calls |-> 0,
                                   response |-> FallbackResponse,
                                   searches |-> 1, failure |-> ""]
               /\ UNCHANGED llm_calls
          ELSE /\ llm_calls' = llm_calls + 1
               /\ query_result' =
                     IF completion \in LlmFailures
                     THEN [outcome |-> Uncaught(completion).outcome,
                           error |-> Uncaught(completion).error,
                           question |-> question, raw |-> raw,
                           searched |-> TRUE, calls |-> 1,
                           response |-> Uncaught(completion).response,
                           searches |-> 1, failure |-> completion]
                     ELSE [outcome |-> "returned", error |-> "",
                           question |-> question, raw |-> raw,
                           searched |-> TRUE, calls |-> 1,
                           response |-> AnsweredResponse(completion, results),
                           searches |-> 1, failure |-> ""]
    /\ UNCHANGED <<clock, top_k, min_similarity, collection, distances, formatted,
                   ingest_result, rlVars, cacheVars, retryVars>>

NoQuery ==
    [outcome |-> "none", error |-> "", question |-> "", raw |-> <<>>,
     searched |-> FALSE, calls |-> 0, response |-> <<>>,
     searches |-> 0, failure |-> ""]

\* A str as the sequence of its characters.
Chars(str) == [i \in 1..Len(str) |-> SubSeq(str, i, i)]

ContainsNever(text, sub) == FALSE

\* sub in text
Contains(text, sub) ==
    \E i \in 1..(Len(text) - Len(sub) + 1) : SubSeq(text, i, i + Len(sub) - 1) = sub

\* The loop of format_response: f"- {preview} by {author} ({url})\n" for
\* every source, in order.
RECURSIVE SourceLines(_)
SourceLines(sources) ==
    IF sources = <<>> THEN <<>>
    ELSE LET source == Head(sources) IN
         Chars("- ") \o source.content_preview \o Chars(" by ") \o Chars(source.author)
            \o Chars(" (") \o Chars(source.url) \o Chars(")\n")
            \o SourceLines(Tail(sources))

\* format_response(response), as the sequence of the characters it returns.
FormatResponse(response) ==
    LET output == Chars(response.answer) IN
    IF response.sources = <<>>
    THEN output
    ELSE IF ~Contains(output, Chars("Sources:"))
    THEN output \o Chars("\n\nSources:\n") \o SourceLines(response.sources)
    ELSE output

NotFormatted == [called |-> FALSE, response |-> <<>>, output |-> <<>>]

\* format_response is applied to the response query() returned.
FormatResponseCall ==
    /\ query_result.outcome = "returned"
    /\ formatted' = [called |-> TRUE, response |-> query_result.response,
                     output |-> FormatResponse(query_result.response)]
    /\ UNCHANGED <<clock, top_k, min_similarity, collection, distances, llm_calls,
                   query_result, ingest_result, rlVars, cacheVars, retryVars>>

\* No ingestion call has been made.
NotIngested ==
    [op |-> "none", messages |-> <<>>, raised |-> "", returned |-> 0,
     gateway |-> <<>>, before |-> <<>>, accepted |-> FALSE]

InitQueryIdle ==
    /\ top_k = 1
    /\ min_similarity = {}
    /\ collection = <<>>
    /\ distances = <<>>
    /\ llm_calls = 0
    /\ query_result = NoQuery
    /\ formatted = NotFormatted
    /\ ingest_result = NotIngested

(***************************************************************************)
(* MessageProcessor and the VectorStore's add calls                        *)
(***************************************************************************)
\* A message as loaded from JSON: a dict from field names to JSON values.
\* The metadata field, when there is one, is a dict with channel and tags.
Message(id, content) ==
    [message_id |-> Str(id), url |-> Str("u-" \o id), author |-> Str("Alice"),
     timestamp |-> Str("2024-01-01T00:00:00"), content |-> content]

RawRecords ==
    { Message("m1", Str("hello")),
      Message("m1", Str("changed")),
      [message_id |-> Str("m2"), url |-> Str("u-m2"), author |-> Str("Bob"),
       timestamp |-> Str("2024-01-02T00:00:00"), content |-> Str("world"),
       metadata |-> [channel |-> "general", tags |-> <<"a", "b">>]],
      [message_id |-> Str("m3"), url |-> Str("u-m3"),
       timestamp |-> Str("2024-01-03T00:00:00"), content |-> Str("no author")],
      Message("m3", Str(" \n")),
      Message("m3", None),
      [Message("m2", Str("no url")) EXCEPT !.url = Str("")] }

\* The lists process_messages_batch is called with.
Batches == UNION {[1..n -> RawRecords] : n \in 0..MaxBatch}

required_fields == {"message_id", "url", "author", "timestamp", "content"}

\* not str.strip(): the str has nothing but whitespace in it.
IsBlank(str) == \A i \in 1..Len(str) : SubSeq(str, i, i) \in {" ", "\t", "\n", "\r"}

\* validate_message: the value it returns, or the exception it lets out
\* (a content that is not a str has no strip method).
ValidateMessage(message) ==
    IF \E field \in required_fields : field \notin DOMAIN message
    THEN [result |-> FALSE, raised |-> ""]
    ELSE IF message["content"].type # "string"
    THEN [result |-> FALSE, raised |-> "AttributeError"]
    ELSE IF IsBlank(message["content"].s)
    THEN [result |-> FALSE, raised |-> ""]
    ELSE [result |-> TRUE, raised |-> ""]

\* ",".join(tags)
RECURSIVE Join(_)
Join(tags) ==
    IF tags = <<>> THEN ""
    ELSE IF Len(tags) = 1 THEN tags[1]
    ELSE tags[1] \o "," \o Join(Tail(tags))

\* The metadata dict built for a validated message; the url, author and
\* timestamp of every message of the model are JSON strings.
BuildMetadata(message) ==
    LET metadata_extra == MetadataGet(message, "metadata", <<>>) IN
    [url |-> message["url"].s,
     author |-> message["author"].s,
     timestamp |-> message["timestamp"].s,
     channel |-> MetadataGet(metadata_extra, "channel", "unknown"),
     tags |-> Join(MetadataGet(metadata_extra, "tags", <<>>))]

\* What the index does with a record whose id it already holds: recent
\* versions of the library ignore the record, older ones raise.
ExistingIdPolicies == {"ignored", "raises"}

\* collection.add(ids, embeddings, documents, metadatas): ids repeated within
\* the call are refused; a record whose id is already stored is never
\* replaced; the other records are stored.
CollectionAdd(coll, ids, documents, metadatas, policy) ==
    IF \E i, j \in DOMAIN ids : i < j /\ ids[i] = ids[j]
    THEN [raised |-> "DuplicateIDError", collection |-> coll]
    ELSE IF policy = "raises" /\ \E i \in DOMAIN ids : ids[i] \in DOMAIN coll
    THEN [raised |-> "IDAlreadyExistsError", collection |-> coll]
    ELSE [raised |-> "",
          collection |->
              [id \in DOMAIN coll \cup {ids[i] : i \in DOMAIN ids} |->
                  IF id \in DOMAIN coll
                  THEN coll[id]
                  ELSE LET i == CHOOSE i \in DOMAIN ids : ids[i] = id
                       IN [content |-> documents[i], metadata |-> metadatas[i]]]]

\* The loop of process_messages_batch over messages[1..n]: the messages kept
\* so far, or the exception validate_message let out.
RECURSIVE Collected(_, _)
Collected(messages, n) ==
    IF n = 0 THEN [raised |-> "", valid_messages |-> <<>>]
    ELSE LET before == Collected(messages, n - 1)
             checked == ValidateMessage(messages[n])
         IN IF before.raised # "" THEN before
            ELSE IF checked.raised # ""
            THEN [raised |-> checked.raised, valid_messages |-> <<>>]
            ELSE IF ~checked.result THEN before
            ELSE [raised |-> "",
                  valid_messages |-> Append(before.valid_messages, messages[n])]

\* The arguments of one add call for the messages kept.
AddCall(valid_messages) ==
    [ids |-> [i \in DOMAIN valid_messages |-> valid_messages[i]["message_id"].s],
     documents |-> [i \in DOMAIN valid_messages |-> Chars(valid_messages[i]["content"].s)],
     metadatas |-> [i \in DOMAIN valid_messages |-> BuildMetadata(valid_messages[i])]]

\* What an ingestion call op over messages does: validation, then at most
\* one add call for the messages kept, then the value returned; with the
\* collection it leaves.
Ingest(op, messages, policy) ==
    LET kept == Collected(messages, Len(messages))
        call == AddCall(kept.valid_messages)
        added == CollectionAdd(collection, call.ids, call.documents, call.metadatas, policy)
    IN IF kept.raised # ""
       THEN [result |-> [op |-> op, messages |-> messages,
                         raised |-> kept.raised, returned |-> 0,
                         gateway |-> <<>>, before |-> collection,
                         accepted |-> FALSE],
             collection |-> collection]
       ELSE IF kept.valid_messages = <<>>
       THEN [result |-> [op |-> op, messages |-> messages,
                         raised |-> "", returned |-> 0,
                         gateway |-> <<>>, before |-> collection,
                         accepted |-> FALSE],
             collection |-> collection]
       ELSE [result |-> [op |-> op, messages |-> messages,
                         raised |-> added.raised,
                         returned |-> IF added.raised = ""
                                      THEN Len(kept.valid_messages) ELSE 0,
                         gateway |-> <<call>>, before |-> collection,
                         accepted |-> TRUE],
             collection |-> added.collection]

\* validate_message(message), called on its own.
ValidateMessageCall(message) ==
    /\ ingest_result' = [op |-> "validate", messages |-> <<message>>,
                         raised |-> ValidateMessage(message).raised, returned |-> 0,
                         gateway |-> <<>>, before |-> collection,
                         accepted |-> ValidateMessage(message).result]
    /\ UNCHANGED <<clock, top_k, min_similarity, collection, distances, llm_calls,
                   query_result, formatted, rlVars, cacheVars, retryVars>>

\* process_messages_batch(messages)
ProcessMessagesBatch(messages) ==
    /\ \E policy \in ExistingIdPolicies :
          /\ ingest_result' = Ingest("batch", messages, policy).result
          /\ collection' = Ingest("batch", messages, policy).collection
    /\ UNCHANGED <<clock, top_k, min_similarity, distances, llm_calls, query_result,
                   formatted, rlVars, cacheVars, retryVars>>

\* process_message(message): validation, then add_message for a valid one.
ProcessMessage(message) ==
    /\ \E policy \in ExistingIdPolicies :
          /\ ingest_result' = Ingest("single", <<message>>, policy).result
          /\ collection' = Ingest("single", <<message>>, policy).collection
    /\ UNCHANGED <<clock, top_k, min_similarity, distances, llm_calls, query_result,
                   formatted, rlVars, cacheVars, retryVars>>

(***************************************************************************)
(* retry_on_error                                                          *)
(***************************************************************************)
\* The exception classes the wrapped operation raises, and their messages.
Kinds == {"RateLimitError", "APIError", "ValueError"}
Messages == {"e1", "e2"}
Values == {"v1", "v2"}

\* The configurations of the decorator.
DelayChoices == {1, 3}
BackoffChoices == {1, 2}
ExceptionsChoices == {{"Exception"}, {"APIError"}, {"RateLimitError"}}

\* The classes an exception of class kind is an instance of:
\* RateLimitError and TimeoutError derive from APIError, APIError and the
\* built-in ValueError derive from Exception.
Superclasses(kind) ==
    IF kind \in {"RateLimitError", "TimeoutError"}
    THEN {kind, "APIError", "Exception"}
    ELSE {kind, "Exception"}

RetryableAlways(kind) == TRUE

\* except exceptions as e: the clause matches instances of the listed classes.
Retryable(kind) == exceptions \cap Superclasses(kind) # {}

AttemptsShort == 0..(max_retries - 1)

\* range(max_retries + 1)
Attempts == 0..max_retries

MayRetryBelow(a) == a + 1 < max_retries

\* if attempt < max_retries
MayRetry(a) == a < max_retries

\* A delay that grows by addition.
NextDelayAdded(d) == d + backoff

\* current_delay *= backoff
NextDelay(d) == d * backoff

\* What one call of func can do: return a value or raise an exception.
Outcomes ==
    {[raised |-> "", message |-> "", value |-> v] : v \in Values}
    \cup {[raised |-> k, message |-> m, value |-> ""] : k \in Kinds, m \in Messages}

\* No exception (None), and the result of a wrapper call that has not ended.
NoException == [raised |-> "", message |-> "", value |-> ""]

\* The wrapper is called: current_delay = delay, last_exception = None, and
\* the loop is entered; over an empty range the wrapper falls through to the
\* end and returns None.
RetryCall ==
    /\ retry_pc # "running"
    /\ clock < MaxRetryTime
    /\ attempt' = 0
    /\ current_delay' = delay
    /\ last_exception' = NoException
    /\ invocations' = <<>>
    /\ sleeps' = <<>>
    /\ retry_out' = NoException
    /\ retry_pc' = IF 0 \in Attempts THEN "running" ELSE "returned"
    /\ UNCHANGED <<clock, max_retries, delay, backoff, exceptions,
                   rlVars, cacheVars, queryVars>>

\* One iteration of the loop: func is called and does o.  A value is
\* returned at once; an exception the except clause does not match leaves
\* the wrapper as it is; a matched exception is kept in last_exception and
\* is either slept on and retried, or raised again.  When the range is used
\* up after a sleep, last_exception is raised after the loop.
RetryAttempt(o) ==
    /\ retry_pc = "running"
    /\ invocations' = Append(invocations, o)
    /\ IF o.raised = ""
       THEN /\ retry_pc' = "returned"
            /\ retry_out' = o
            /\ UNCHANGED <<clock, attempt, current_delay, last_exception, sleeps>>
       ELSE IF ~Retryable(o.raised)
       THEN /\ retry_pc' = "raised"
            /\ retry_out' = o
            /\ UNCHANGED <<clock, attempt, current_delay, last_exception, sleeps>>
       ELSE IF MayRetry(attempt)
       THEN /\ last_exception' = o
            /\ sleeps' = Append(sleeps, current_delay)
            /\ clock' = clock + current_delay
            /\ current_delay' = NextDelay(current_delay)
            /\ attempt' = attempt + 1
            /\ retry_pc' = IF attempt + 1 \in Attempts THEN "running" ELSE "raised"
            /\ retry_out' = IF attempt + 1 \in Attempts THEN retry_out ELSE o
       ELSE /\ last_exception' = o
            /\ retry_pc' = "raised"
            /\ retry_out' = o
            /\ UNCHANGED <<clock, attempt, current_delay, sleeps>>
    /\ UNCHANGED <<max_retries, delay, backoff, exceptions, rlVars, cacheVars, queryVars>>

InitRetryIdle ==
    /\ max_retries = 0
    /\ delay = 0
    /\ backoff = 0
    /\ exceptions = {}
    /\ retry_pc = "idle"
    /\ attempt = 0
    /\ current_delay = 0
    /\ last_exception = NoException
    /\ invocations = <<>>
    /\ sleeps = <<>>
    /\ retry_out = NoException

InitRateLimiter(threads, capacities) ==
    /\ callers = threads
    /\ requests_per_minute \in capacities
    /\ requests = <<>>
    /\ pc = [t \in threads |-> "idle"]
    /\ now = [t \in threads |-> 0]
    /\ wake = [t \in threads |-> 0]
    /\ admitted = <<>>
    /\ usage = [current_requests |-> 0, max_requests |-> requests_per_minute]
    /\ usage_call = NoUsageCall
    /\ blocking = [t \in threads |-> NotBlocked]

\* One caller, any configured capacity.
InitRL ==
    /\ clock = 0
    /\ InitRateLimiter({1}, 0..MaxCapacity)
    /\ InitCacheIdle
    /\ InitQueryIdle
    /\ InitRetryIdle

NextRL ==
    \/ \E t \in callers : AcquireCall(t)
    \/ \E t \in callers : PurgeTest(t)
    \/ \E t \in callers : PurgeHead(t)
    \/ \E t \in callers : PurgePop(t)
    \/ \E t \in callers : CapacityCheck(t)
    \/ \E t \in callers : ComputeSleep(t)
    \/ \E t \in callers : SleepReturns(t)
    \/ \E t \in callers : ReNow(t)
    \/ \E t \in callers : AppendNow(t)
    \/ GetCurrentUsage
    \/ GetRemainingCapacity
    \/ Tick

SpecRL == InitRL /\ [][NextRL]_vars

\* Two threads sharing one limiter of capacity >= 1.
InitRLConc ==
    /\ clock = 0
    /\ InitRateLimiter({1, 2}, 1..MaxCapacity)
    /\ InitCacheIdle
    /\ InitQueryIdle
    /\ InitRetryIdle

SpecRLConc == InitRLConc /\ [][NextRL]_vars

InitRateLimiterIdle ==
    /\ callers = {}
    /\ requests_per_minute = 0
    /\ requests = <<>>
    /\ pc = <<>>
    /\ now = <<>>
    /\ wake = <<>>
    /\ admitted = <<>>
    /\ usage = [current_requests |-> 0, max_requests |-> 0]
    /\ usage_call = NoUsageCall
    /\ blocking = <<>>

\* A cache over a directory that is empty or holds one file left by an
\* earlier process.
InitCache ==
    /\ clock = 0
    /\ ttl_seconds \in TtlChoices
    /\ \/ files = <<>>
       \/ \E text \in LeftoverTexts :
             files = WriteFile(<<>>, CacheKey("hi", "gpt"), text)
    /\ cache_log = <<>>
    /\ cache_op = NoCacheOp
    /\ writing = NotWriting
    /\ InitRateLimiterIdle
    /\ InitQueryIdle
    /\ InitRetryIdle

NextCache ==
    \/ \E p \in Prompts, m \in Models : CacheGet(p, m)
    \/ \E p \in Prompts, m \in Models, r \in Responses : CacheSet(p, m, r)
    \/ CacheClear
    \/ ClearExpired
    \/ CacheTick

SpecCache == InitCache /\ [][NextCache]_vars

\* One thread inside set() while another thread calls get() on the same
\* cache directory.
NextCacheConc ==
    \/ \E p \in Prompts, m \in Models, r \in Responses : SetOpen(p, m, r)
    \/ SetFlush
    \/ SetClose
    \/ \E p \in Prompts, m \in Models : CacheGet(p, m)
    \/ CacheTick

SpecCacheConc == InitCache /\ [][NextCacheConc]_vars


\* A query engine over a persisted collection: any subset of the messages,
\* at any distances from the question.
InitQuery ==
    /\ clock = 0
    /\ top_k \in 1..MaxTopK
    /\ min_similarity \in MinSimilarityChoices
    /\ \E ids \in SUBSET MessageIds :
          /\ collection = [id \in ids |-> [content |-> Document(id),
                                           metadata |-> Metadata(id)]]
          /\ distances \in [Questions -> [ids -> Distances]]
    /\ llm_calls = 0
    /\ query_result = NoQuery
    /\ formatted = NotFormatted
    /\ ingest_result = NotIngested
    /\ InitRateLimiterIdle
    /\ InitCacheIdle
    /\ InitRetryIdle

NextQuery ==
    \/ \E q \in Questions : Query(q)
    \/ FormatResponseCall

SpecQuery == InitQuery /\ [][NextQuery]_vars

\* A message processor over a collection that starts empty.
InitIngest ==
    /\ clock = 0
    /\ InitQueryIdle
    /\ InitRateLimiterIdle
    /\ InitCacheIdle
    /\ InitRetryIdle

NextIngest ==
    \/ \E messages \in Batches : ProcessMessagesBatch(messages)
    \/ \E message \in RawRecords : ProcessMessage(message)
    \/ \E message \in RawRecords : ValidateMessageCall(message)

SpecIngest == InitIngest /\ [][NextIngest]_vars

\* An operation wrapped by retry_on_error, under any configuration.
InitRetry ==
    /\ clock = 0
    /\ max_retries \in 0..MaxRetries
    /\ delay \in DelayChoices
    /\ backoff \in BackoffChoices
    /\ exceptions \in ExceptionsChoices
    /\ retry_pc = "idle"
    /\ attempt = 0
    /\ current_delay = 0
    /\ last_exception = NoException
    /\ invocations = <<>>
    /\ sleeps = <<>>
    /\ retry_out = NoException
    /\ InitRateLimiterIdle
    /\ InitCacheIdle
    /\ InitQueryIdle

NextRetry ==
    \/ RetryCall
    \/ \E o \in Outcomes : RetryAttempt(o)

SpecRetry == InitRetry /\ [][NextRetry]_vars

(***************************************************************************)
(* RateLimiter: claims                                                     *)
(***************************************************************************)
\* The acquire() calls admitted in the trailing interval (t - window_size, t].
AdmittedInWindow(t) ==
    {i \in DOMAIN admitted : t - window_size < admitted[i] /\ admitted[i] <= t}

\* C3: with one caller, whatever get_current_usage() reports between acquire()
\* calls, current_requests is at most the capacity.
C3_UsageWithinCapacity == usage.current_requests <= usage.max_requests

\* C4: with one caller, at every time t at most requests_per_minute acquire()
\* calls were admitted in the trailing interval (t - window_size, t].
C4_SlidingWindowAdmission ==
    \A t \in 0..clock : Cardinality(AdmittedInWindow(t)) <= requests_per_minute

\* C5: for any configured capacity, acquire() never raises: no caller ever
\* leaves acquire() through an exception instead of through the append.
C5_AcquireNeverRaises == \A t \in callers : pc[t] # "raised"

\* C6: with two callers on one shared limiter, no interleaving admits more
\* than the capacity inside one window, and none makes acquire() fail.
C6_AtomicCheckAndAppend ==
    /\ \A t \in callers : pc[t] # "raised"
    /\ \A t \in 0..clock : Cardinality(AdmittedInWindow(t)) <= requests_per_minute

(***************************************************************************)
(* ResponseCache: claims                                                   *)
(***************************************************************************)
\* The set(prompt, model, .) calls that no clear() has followed.
SetsSinceClear(prompt, model) ==
    {i \in DOMAIN cache_log :
        /\ cache_log[i].op = "set"
        /\ cache_log[i].prompt = prompt
        /\ cache_log[i].model = model
        /\ \A j \in DOMAIN cache_log : j > i => cache_log[j].op # "clear"}

\* The most recent of them.
LastSet(prompt, model) ==
    cache_log[CHOOSE i \in SetsSinceClear(prompt, model) :
                 \A j \in SetsSinceClear(prompt, model) : j <= i]

\* C7: a get(p, m) no more than ttl_seconds after the most recent set(p, m, r),
\* with no clear() in between, returns exactly r.
C7_ReadYourLatestWrite ==
    (/\ cache_op.op = "get"
     /\ SetsSinceClear(cache_op.prompt, cache_op.model) # {}
     /\ cache_op.time - LastSet(cache_op.prompt, cache_op.model).time <= ttl_seconds)
    => /\ cache_op.raised = ""
       /\ cache_op.result = Str(LastSet(cache_op.prompt, cache_op.model).response)

\* C8: a get(p, m) more than ttl_seconds after the last set(p, m, .) returns
\* absent and leaves no entry for (p, m) in storage.
C8_LazyExpiry ==
    (/\ cache_op.op = "get"
     /\ SetsSinceClear(cache_op.prompt, cache_op.model) # {}
     /\ cache_op.time - LastSet(cache_op.prompt, cache_op.model).time > ttl_seconds)
    => /\ cache_op.raised = ""
       /\ cache_op.result = None
       /\ CacheKey(cache_op.prompt, cache_op.model) \notin DOMAIN files

\* The last two writes are set(p, A, r1) and set(p, B, r2) with A # B.
TwoModelsSet ==
    /\ Len(cache_log) >= 2
    /\ cache_log[Len(cache_log) - 1].op = "set"
    /\ cache_log[Len(cache_log)].op = "set"
    /\ cache_log[Len(cache_log) - 1].prompt = cache_log[Len(cache_log)].prompt
    /\ cache_log[Len(cache_log) - 1].model # cache_log[Len(cache_log)].model

\* C9: set(p, A, r1) and set(p, B, r2) with A # B, in either order, do not
\* overwrite each other: the second set leaves the entry of the first as it
\* was written, and a get of either pair within its TTL returns the response
\* that was set for that pair.
C9_ModelIsolation ==
    TwoModelsSet =>
        LET first == cache_log[Len(cache_log) - 1]
            second == cache_log[Len(cache_log)]
        IN /\ cache_op.op = "set" =>
                 /\ CacheKey(first.prompt, first.model) \in DOMAIN files =>
                       files[CacheKey(first.prompt, first.model)] =
                          JsonDump(EntryData(first.time, first.prompt,
                                             first.model, first.response))
                 /\ files[CacheKey(second.prompt, second.model)] =
                       JsonDump(EntryData(second.time, second.prompt,
                                          second.model, second.response))
           /\ \A e \in {first, second} :
                 (/\ cache_op.op = "get"
                  /\ cache_op.prompt = e.prompt
                  /\ cache_op.model = e.model
                  /\ cache_op.time - e.time <= ttl_seconds)
                 => /\ cache_op.raised = ""
                    /\ cache_op.result = Str(e.response)

\* Witness of C9: after set(p, A, r1) and set(p, B, r2) with r1 # r2, a
\* get(p, A) within the TTL has returned r1.
C9_Witness ==
    /\ TwoModelsSet
    /\ cache_log[Len(cache_log) - 1].response # cache_log[Len(cache_log)].response
    /\ cache_op.op = "get"
    /\ cache_op.prompt = cache_log[Len(cache_log) - 1].prompt
    /\ cache_op.model = cache_log[Len(cache_log) - 1].model
    /\ cache_op.time - cache_log[Len(cache_log) - 1].time <= ttl_seconds
    /\ cache_op.result = Str(cache_log[Len(cache_log) - 1].response)

\* C10: whatever the stored entry holds, get() never raises, and an entry it
\* reports absent is no longer in storage.
C10_GetFailsSoft ==
    cache_op.op = "get" =>
        /\ cache_op.raised = ""
        /\ cache_op.result = None =>
              CacheKey(cache_op.prompt, cache_op.model) \notin DOMAIN files

(***************************************************************************)
(* QueryEngine: claims                                                     *)
(***************************************************************************)
\* No record the index returned reaches the threshold.
NothingPasses ==
    \A i \in DOMAIN query_result.raw :
        \E m \in min_similarity :
            One - distances[query_result.question][query_result.raw[i]] < m

\* C1: when the search yields no result whose similarity reaches
\* min_similarity, query() returns the fallback answer with no sources and
\* makes no completion call.
C1_EmptyResultShortCircuit ==
    (query_result.searched /\ NothingPasses)
    => /\ query_result.outcome = "returned"
       /\ query_result.response.answer = FallbackAnswer
       /\ query_result.response.sources = <<>>
       /\ query_result.calls = 0

\* Witness of C1: the index returned top_k records, all below the threshold,
\* and query() returned the fallback answer.
C1_Witness ==
    /\ query_result.outcome = "returned"
    /\ Len(query_result.raw) = top_k
    /\ NothingPasses
    /\ query_result.response.answer = FallbackAnswer
    /\ query_result.calls = 0

\* C2: every response query() returns carries answer, sources, context_used
\* and num_sources, with num_sources the length of sources.
C2_ResponseFields ==
    query_result.outcome = "returned"
    => /\ DOMAIN query_result.response =
             {"answer", "sources", "context_used", "num_sources"}
       /\ query_result.response.num_sources = Len(query_result.response.sources)

(***************************************************************************)
(* ResponseCache under concurrent use: claims                              *)
(***************************************************************************)
\* C11: a cache write is atomic with respect to concurrent use of the same
\* key: no entry is deleted as corrupted while set() is writing it, and the
\* entry a set() call has just finished writing is in the directory, whole.
C11_AtomicCacheWrite ==
    /\ ~writing.detached
    /\ (cache_op.op = "set" /\ ~writing.active /\ writing.key # "") =>
           /\ writing.key \in DOMAIN files
           /\ files[writing.key] = writing.text

(***************************************************************************)
(* retry_on_error: claims                                                  *)
(***************************************************************************)
\* The exception of invocation i is one the configured set makes retryable.
FailedRetryable(i) ==
    /\ invocations[i].raised # ""
    /\ exceptions \cap Superclasses(invocations[i].raised) # {}

\* The exception of invocation i is outside the configured retryable set.
FailedNotRetryable(i) ==
    /\ invocations[i].raised # ""
    /\ exceptions \cap Superclasses(invocations[i].raised) = {}

\* C12: retry exhaustion.  While every attempt made so far has failed with
\* a retryable kind, the operation has been invoked at most max_retries + 1
\* times; the wrapper goes on until that many attempts are made, and then
\* ends by raising the failure of the final attempt, kind and message
\* unchanged.
C12_RetryExhaustion ==
    (retry_pc # "idle" /\ \A i \in DOMAIN invocations : FailedRetryable(i)) =>
        /\ Len(invocations) <= max_retries + 1
        /\ retry_pc = "running" => Len(invocations) <= max_retries
        /\ retry_pc # "running" =>
              /\ retry_pc = "raised"
              /\ Len(invocations) = max_retries + 1
              /\ retry_out = invocations[Len(invocations)]

C12_Witness ==
    /\ retry_pc = "raised"
    /\ max_retries = 2
    /\ Len(invocations) = 3
    /\ \A i \in DOMAIN invocations : FailedRetryable(i)
    /\ invocations[1].message # invocations[3].message
    /\ retry_out = invocations[3]

\* C13: a failure outside the retryable set propagates at once.  The attempt
\* that raised it is the last invocation, the wrapper has ended by raising
\* that very failure, and the only sleeps are the ones after the earlier
\* attempts.
C13_NonRetryablePropagates ==
    \A i \in DOMAIN invocations :
        FailedNotRetryable(i) =>
            /\ i = Len(invocations)
            /\ retry_pc = "raised"
            /\ retry_out = invocations[i]
            /\ Len(sleeps) = i - 1

C13_Witness ==
    /\ retry_pc = "raised"
    /\ Len(invocations) = 2
    /\ FailedRetryable(1)
    /\ FailedNotRetryable(2)
    /\ Len(sleeps) = 1

\* C14: retry success.  A successful attempt is the last invocation and the
\* wrapper has returned its result; the wrapper returns only the result of
\* a successful attempt; and it does not give up on a retryable failure
\* before max_retries + 1 attempts are made, so that a success on attempt
\* k + 1 <= max_retries + 1 is reached after k retryable failures.
C14_RetrySuccess ==
    /\ \A i \in DOMAIN invocations :
          invocations[i].raised = "" =>
              /\ i = Len(invocations)
              /\ retry_pc = "returned"
              /\ retry_out = invocations[i]
              /\ \A j \in 1..(i - 1) : FailedRetryable(j)
              /\ i - 1 <= max_retries
    /\ retry_pc = "returned" =>
          /\ Len(invocations) >= 1
          /\ invocations[Len(invocations)].raised = ""
    /\ (retry_pc = "raised" /\ FailedRetryable(Len(invocations))) =>
          Len(invocations) = max_retries + 1

C14_Witness ==
    /\ retry_pc = "returned"
    /\ max_retries = 2
    /\ Len(invocations) = 3
    /\ retry_out = invocations[3]
    /\ retry_out.value = "v2"

(***************************************************************************)
(* QueryEngine: further claims                                             *)
(***************************************************************************)
\* Thresholds to compare: below every score, at a score, between, above.
Thresholds == {0 - 30, 0, 60, 70, 100}

\* C15: threshold monotonicity.  For one question, one corpus and one top_k,
\* raising the threshold from m1 to m2 never yields more sources, whatever
\* order the index gives to records at equal distance; and a query that has
\* returned under the configured threshold has no more sources than a
\* search under any lower threshold has results.
C15_ThresholdMonotone ==
    /\ \A q \in Questions, m1 \in Thresholds, m2 \in Thresholds :
          m1 <= m2 =>
             \A raw1 \in Nearest(q, top_k), raw2 \in Nearest(q, top_k) :
                Len(Search(q, raw2, {m2})) <= Len(Search(q, raw1, {m1}))
    /\ query_result.outcome = "returned" =>
          \A m2 \in min_similarity, m1 \in Thresholds :
             m1 <= m2 =>
                \A raw1 \in Nearest(query_result.question, top_k) :
                   Len(query_result.response.sources)
                      <= Len(Search(query_result.question, raw1, {m1}))

\* A query under threshold 0.7 returned one source where threshold 0 gives two.
C15_Witness ==
    /\ query_result.outcome = "returned"
    /\ min_similarity = {70}
    /\ Len(query_result.response.sources) = 1
    /\ Len(Search(query_result.question, query_result.raw, {0})) = 2

\* C16: preview truncation.  In a returned response the content_preview of
\* every source is the matched content itself when that has at most 100
\* characters, and otherwise its first 100 characters followed by "...",
\* 103 characters in all; it is never longer than 103 characters.
C16_PreviewTruncation ==
    query_result.outcome = "returned" =>
        \A i \in DOMAIN query_result.response.sources :
            LET content == query_result.response.context_used[i].content
                preview == query_result.response.sources[i].content_preview
            IN /\ Len(content) <= 100 => preview = content
               /\ Len(content) > 100 =>
                     /\ Len(preview) = 103
                     /\ SubSeq(preview, 1, 100) = SubSeq(content, 1, 100)
                     /\ SubSeq(preview, 101, 103) = <<".", ".", ".">>
               /\ Len(preview) <= 103

\* One response with a source of exactly 100 characters, left whole, and a
\* source of 101 characters, cut.
C16_Witness ==
    /\ query_result.outcome = "returned"
    /\ \E i, j \in DOMAIN query_result.response.sources :
          /\ Len(query_result.response.context_used[i].content) = 100
          /\ Len(query_result.response.sources[i].content_preview) = 100
          /\ Len(query_result.response.context_used[j].content) = 101
          /\ Len(query_result.response.sources[j].content_preview) = 103

\* The text one source contributes: "- {preview} by {author} ({url})" and
\* the end of the line.
SourceLine(source) ==
    <<"-", " ">> \o source.content_preview \o <<" ", "b", "y", " ">>
        \o Chars(source.author) \o <<" ", "(">> \o Chars(source.url) \o <<")", "\n">>

\* The lines of sources[1..n], one after the other.
RECURSIVE LinesUpTo(_, _)
LinesUpTo(sources, n) ==
    IF n = 0 THEN <<>> ELSE LinesUpTo(sources, n - 1) \o SourceLine(sources[n])

\* The answer has "Sources:" somewhere in it.
HasSourcesSection(answer) ==
    \E i \in 1..Len(answer) :
        /\ i + 7 <= Len(answer)
        /\ SubSeq(answer, i, i + 7) = "Sources:"

\* C17: format_response returns the answer verbatim when the response has no
\* sources and when the answer already contains "Sources:"; otherwise it
\* returns the answer, a blank line, a "Sources:" line and one line
\* "- {preview} by {author} ({url})" per source, in source order.
C17_FormatResponse ==
    formatted.called =>
        LET answer == formatted.response.answer
            sources == formatted.response.sources
        IN IF sources = <<>> \/ HasSourcesSection(answer)
           THEN formatted.output = Chars(answer)
           ELSE formatted.output =
                   Chars(answer) \o <<"\n", "\n">> \o Chars("Sources:") \o <<"\n">>
                      \o LinesUpTo(sources, Len(sources))

\* A response with two sources whose answer has no sources section.
C17_Witness ==
    /\ formatted.called
    /\ Len(formatted.response.sources) = 2
    /\ ~HasSourcesSection(formatted.response.answer)
    /\ Len(formatted.output) > Len(formatted.response.answer)

\* C18: failure propagation.  When the search or the completion of a query
\* raised, query() has ended by raising that same failure: it has returned
\* no response, fallback or other, and it has searched once and asked the
\* LLM at most once.
C18_FailurePropagates ==
    query_result.failure # "" =>
        /\ query_result.outcome = "raised"
        /\ query_result.error = query_result.failure
        /\ query_result.response = <<>>
        /\ query_result.searches = 1
        /\ query_result.calls <= 1

\* One run in which the search of a query failed and, in a later query, the
\* completion failed after a search that found something.
C18_Witness ==
    /\ query_result.outcome = "raised"
    /\ query_result.failure = "RateLimitError"
    /\ query_result.searched
    /\ query_result.calls = 1
    /\ llm_calls = 2

(***************************************************************************)
(* Ingestion: claims                                                       *)
(***************************************************************************)
\* A record the messaging contract accepts: the five required fields are
\* there, each a non-empty string, and the content is not blank.
ValidRecord(message) ==
    /\ required_fields \subseteq DOMAIN message
    /\ \A field \in required_fields :
          /\ message[field].type = "string"
          /\ message[field].s # ""
    /\ ~IsBlank(message["content"].s)

\* The positions of the valid records of a list, in order.
RECURSIVE ValidPositions(_, _)
ValidPositions(messages, n) ==
    IF n = 0 THEN <<>>
    ELSE IF ValidRecord(messages[n])
    THEN Append(ValidPositions(messages, n - 1), n)
    ELSE ValidPositions(messages, n - 1)

\* C19: idempotent overwrite on ingestion.  After an ingestion call made of
\* valid records with distinct identifiers, the call has not failed, and
\* every record of the call is the one stored under its identifier, content
\* and metadata, also when the identifier was stored before; the collection
\* holds the identifiers it held before and those of the call, one record
\* each.
C19_IdempotentOverwrite ==
    (/\ ingest_result.op \in {"batch", "single"}
     /\ \A i \in DOMAIN ingest_result.messages : ValidRecord(ingest_result.messages[i])
     /\ \A i, j \in DOMAIN ingest_result.messages :
           ingest_result.messages[i]["message_id"] = ingest_result.messages[j]["message_id"]
              => i = j) =>
        /\ ingest_result.raised = ""
        /\ DOMAIN collection =
              DOMAIN ingest_result.before
                 \cup {ingest_result.messages[i]["message_id"].s :
                          i \in DOMAIN ingest_result.messages}
        /\ \A i \in DOMAIN ingest_result.messages :
              LET message == ingest_result.messages[i] IN
              /\ collection[message["message_id"].s].content = Chars(message["content"].s)
              /\ collection[message["message_id"].s].metadata = BuildMetadata(message)

\* C20: batch ingestion never aborts on a bad record.  process_messages_batch
\* has not raised; it has returned the number of valid records of its list;
\* and it has made no add call when no record is valid, and otherwise one
\* add call carrying exactly the valid records, in input order, identifiers,
\* contents and metadata aligned.
C20_BatchNeverAborts ==
    ingest_result.op = "batch" =>
        LET messages == ingest_result.messages
            valid == ValidPositions(messages, Len(messages))
        IN /\ ingest_result.raised = ""
           /\ ingest_result.returned = Len(valid)
           /\ IF valid = <<>>
              THEN ingest_result.gateway = <<>>
              ELSE /\ Len(ingest_result.gateway) = 1
                   /\ ingest_result.gateway[1].ids =
                         [i \in DOMAIN valid |-> messages[valid[i]]["message_id"].s]
                   /\ ingest_result.gateway[1].documents =
                         [i \in DOMAIN valid |-> Chars(messages[valid[i]]["content"].s)]
                   /\ ingest_result.gateway[1].metadatas =
                         [i \in DOMAIN valid |-> BuildMetadata(messages[valid[i]])]

(***************************************************************************)
(* ResponseCache: further claims                                           *)
(***************************************************************************)
\* C21: clear() removes every stored entry and returns how many there were;
\* after a clear(), a get(p, m) returns absent as long as no set(p, m, .)
\* has followed the clear().
C21_ClearRemovesAll ==
    /\ cache_op.op = "clear" =>
          /\ cache_op.raised = ""
          /\ files = <<>>
          /\ cache_op.count = Cardinality(DOMAIN cache_op.before)
    /\ (/\ cache_op.op = "get"
        /\ \E i \in DOMAIN cache_log : cache_log[i].op = "clear"
        /\ SetsSinceClear(cache_op.prompt, cache_op.model) = {})
       => /\ cache_op.raised = ""
          /\ cache_op.result = None

\* An entry clear_expired() has to leave in storage at time t: a dict whose
\* timestamp is a number no more than ttl_seconds old.
LiveEntry(text, t) ==
    /\ JsonLoad(text).kind = "dict"
    /\ HasKey(JsonLoad(text), "timestamp")
    /\ Lookup(JsonLoad(text), "timestamp").type = "number"
    /\ t - Lookup(JsonLoad(text), "timestamp").n <= ttl_seconds

\* C22: clear_expired() never raises; it removes exactly the entries that
\* are older than ttl_seconds or cannot be parsed, returns how many it
\* removed, and leaves every other entry as it was.
C22_ClearExpired ==
    cache_op.op = "clear_expired" =>
        /\ cache_op.raised = ""
        /\ DOMAIN files =
              {k \in DOMAIN cache_op.before : LiveEntry(cache_op.before[k], cache_op.time)}
        /\ \A k \in DOMAIN files : files[k] = cache_op.before[k]
        /\ cache_op.count = Cardinality(DOMAIN cache_op.before \ DOMAIN files)

\* C30: the cache is keyed by the pair: a response get(p, m) returns was
\* stored for that prompt p and that model m, by a set(p, m, .) of this run
\* or in the entry an earlier process left for ("hi", "gpt").
C30_KeyedByPair ==
    (cache_op.op = "get" /\ cache_op.result # None) =>
        \/ \E i \in DOMAIN cache_log :
              /\ cache_log[i].op = "set"
              /\ cache_log[i].prompt = cache_op.prompt
              /\ cache_log[i].model = cache_op.model
              /\ Str(cache_log[i].response) = cache_op.result
        \/ /\ cache_op.prompt = "hi"
           /\ cache_op.model = "gpt"
           /\ cache_op.result = Str("r1")
           /\ \A i \in DOMAIN cache_log : cache_log[i].op # "clear"

(***************************************************************************)
(* RateLimiter: further claims                                             *)
(***************************************************************************)
\* The requests admitted before the last usage call that were inside the
\* trailing interval (time - window_size, time] when it was made.
InsideWindowAtCall ==
    {i \in 1..usage_call.admitted_len :
        /\ usage_call.time - window_size < admitted[i]
        /\ admitted[i] <= usage_call.time}

\* C23: with one caller, a get_current_usage() or get_remaining_capacity()
\* call reports current_requests = the number of admitted requests inside
\* the trailing window at the time of the call, and max_requests = the
\* capacity; get_remaining_capacity() returns (capacity - current_requests,
\* capacity); the call leaves the deque without head entries that are
\* outside the window and otherwise as it was: nothing added, nothing inside
\* the window removed.
C23_UsageReport ==
    (usage_call.op # "none" /\ Len(admitted) = usage_call.admitted_len
       /\ clock = usage_call.time) =>
        LET removed == Len(usage_call.before) - Len(requests) IN
        /\ usage.current_requests = Cardinality(InsideWindowAtCall)
        /\ usage.max_requests = requests_per_minute
        /\ usage_call.op = "remaining" =>
              usage_call.remaining =
                 <<requests_per_minute - Cardinality(InsideWindowAtCall),
                   requests_per_minute>>
        /\ removed >= 0
        /\ requests = SubSeq(usage_call.before, removed + 1, Len(usage_call.before))
        /\ \A i \in 1..removed :
              usage_call.before[i] <= usage_call.time - window_size

\* C25: with one caller, an acquire() call sleeps at most once, and only
\* when its capacity check found at least requests_per_minute timestamps in
\* the purged deque; the sleep lasts window_size - (now - the oldest admitted
\* timestamp not yet window_size old), which is never more than window_size;
\* a call whose check found fewer than requests_per_minute timestamps goes
\* straight to the append and returns without sleeping.
C25_BlocksOnlyWhenFull ==
    \A t \in callers :
        /\ blocking[t].sleeps <= 1
        /\ blocking[t].sleeps = 1 =>
              /\ blocking[t].size >= requests_per_minute
              /\ \E i \in DOMAIN admitted :
                    /\ blocking[t].now - admitted[i] <= window_size
                    /\ blocking[t].oldest = admitted[i]
                    /\ \A j \in DOMAIN admitted :
                          blocking[t].now - admitted[j] <= window_size
                             => admitted[i] <= admitted[j]
              /\ blocking[t].duration =
                    window_size - (blocking[t].now - blocking[t].oldest)
              /\ blocking[t].duration <= window_size
        /\ (blocking[t].size >= 0 /\ blocking[t].size < requests_per_minute) =>
              /\ blocking[t].sleeps = 0
              /\ pc[t] \in {"append", "idle"}

\* A call that found the window full has slept for less than the whole
\* window and has returned.
C25_Witness ==
    \E t \in callers :
        /\ pc[t] = "idle"
        /\ blocking[t].sleeps = 1
        /\ blocking[t].size >= 1
        /\ blocking[t].duration < window_size

(***************************************************************************)
(* QueryEngine: scores, sources and the completion call                    *)
(***************************************************************************)
\* C24: every score of a search result and of a source in a returned
\* response lies in [0, 1], whatever the distances of the stored records
\* and whatever the threshold, none included.
C24_ScoreInUnitInterval ==
    query_result.outcome = "returned" =>
        /\ \A i \in DOMAIN query_result.response.context_used :
              /\ 0 <= query_result.response.context_used[i].score
              /\ query_result.response.context_used[i].score <= One
        /\ \A i \in DOMAIN query_result.response.sources :
              /\ 0 <= query_result.response.sources[i].score
              /\ query_result.response.sources[i].score <= One

\* C27: in an answered response the sources are the filtered results, one
\* for one and in the same order: context_used is what the search kept of
\* the index's result, and sources[i] has the url, author and timestamp of
\* the metadata of context_used[i] (the defaults where the metadata has
\* none) and its score, whatever the LLM answered.
C27_SourcesFollowResults ==
    (query_result.outcome = "returned" /\ query_result.calls = 1) =>
        LET sources == query_result.response.sources
            context_used == query_result.response.context_used
        IN /\ context_used = Search(query_result.question, query_result.raw, min_similarity)
           /\ Len(sources) = Len(context_used)
           /\ \A i \in DOMAIN sources :
                 /\ sources[i].url = MetadataGet(context_used[i].metadata, "url", "")
                 /\ sources[i].author =
                       MetadataGet(context_used[i].metadata, "author", "Unknown")
                 /\ sources[i].timestamp =
                       MetadataGet(context_used[i].metadata, "timestamp", "")
                 /\ sources[i].score = context_used[i].score

\* An answered response with two sources that differ in url and score.
C27_Witness ==
    /\ query_result.outcome = "returned"
    /\ query_result.calls = 1
    /\ Len(query_result.response.sources) = 2
    /\ query_result.response.sources[1].url # query_result.response.sources[2].url
    /\ query_result.response.sources[1].score > query_result.response.sources[2].score

\* C28: whenever query() has asked the LLM for a completion, the call went
\* through the supporting utilities: the rate limiter admitted a request,
\* the response cache was looked up, and the retry wrapper ran the call.
C28_CompletionThroughUtilities ==
    query_result.calls >= 1 =>
        /\ admitted # <<>>
        /\ cache_op.op = "get"
        /\ retry_pc # "idle"

(***************************************************************************)
(* retry_on_error: the backoff schedule                                    *)
(***************************************************************************)
RECURSIVE Power(_, _)
Power(b, n) == IF n = 0 THEN 1 ELSE b * Power(b, n - 1)

\* C26: backoff schedule.  While the wrapper is between two attempts it has
\* slept once per attempt made, and once it has ended it has slept once per
\* attempt but the last: one sleep between consecutive attempts, none after
\* a success or after the final failure.  The sleep before the i-th retry
\* lasts delay * backoff^(i-1).
C26_BackoffSchedule ==
    /\ retry_pc = "running" => Len(sleeps) = Len(invocations)
    /\ retry_pc \in {"returned", "raised"} => Len(sleeps) = Len(invocations) - 1
    /\ \A i \in DOMAIN sleeps : sleeps[i] = delay * Power(backoff, i - 1)

\* Two retries after failures, with sleeps of 3 and 6.
C26_Witness ==
    /\ retry_pc = "raised"
    /\ delay = 3
    /\ backoff = 2
    /\ Len(invocations) = 3
    /\ sleeps = <<3, 6>>

(***************************************************************************)
(* validate_message: claim                                                 *)
(***************************************************************************)
\* C29: validate_message never raises, and it accepts a record exactly when
\* the five required fields are present and non-empty and the content is
\* not blank.
C29_ValidateMessage ==
    ingest_result.op = "validate" =>
        /\ ingest_result.raised = ""
        /\ ingest_result.accepted <=> ValidRecord(ingest_result.messages[1])

====
